---- MODULE Spec2Model ----
(***************************************************************************)
(* A model of the FGI backtest repository:                                 *)
(*   src/backtest.py  run_fgi_strategy  (the position state machine),      *)
(*                    analyze_threshold_sensitivity                        *)
(*   src/data.py      get_fgi_history, _fetch_fgi_from_api,                *)
(*                    get_btc_history, align_series                        *)
(* Each function is a sequential program; its local variables are the      *)
(* variables below and each specification runs one function from its call  *)
(* to its return; SpecCalls and SpecFetch also let the caller call again.  *)
(* Dates are day numbers, FGI values and prices are                        *)
(* integers, and capital and returns are exact fractions <<num, den>>      *)
(* (the floating-point rounding of the Python code is not modelled).       *)
(***************************************************************************)
EXTENDS Integers, Sequences, FiniteSets, TLC

\* ------------------------------------------------------------------ bounds
\* Longest input series of run_fgi_strategy, in days.
MaxDays == 3

\* Last calendar day of the tables and windows given to align_series.
MaxDate == 3

\* Longest list of records in a response of the alternative.me API.
MaxRecords == 2

\* Longest table of a caller that calls run_fgi_strategy several times.
MaxCallDays == 2

\* Longest table given to analyze_threshold_sensitivity.
MaxSensDays == 2

\* Longest input series that holds a zero or negative Close.
MaxBadDays == 2

\* Largest max_retries, and last calendar day, given to get_btc_history.
MaxRetries == 4
MaxBtcDate == 4

\* FGI values and thresholds the inputs are drawn from: with these every
\* comparison of the engine is met below, at and above its threshold, and
\* buy_threshold >= sell_threshold occurs as well.
FGIValues == {30, 50, 70}
BuyThresholds == {30, 50}
SellThresholds == {50, 70}
CloseValues == {90, 110}
\* Fee rates a caller may ask for, in percent (app.py trade_fee).
FeeRates == {0, 1}

\* ------------------------------------------------------- exact fractions
RECURSIVE Gcd(_, _)
Gcd(a, b) == IF b = 0 THEN a ELSE Gcd(b, a % b)

Abs(x) == IF x < 0 THEN -x ELSE x

Sign(x) == IF x < 0 THEN -1 ELSE IF x > 0 THEN 1 ELSE 0

\* The fraction n/d in lowest terms with a positive denominator.  A division
\* by zero of numpy floats does not raise: it gives inf, -inf or nan, written
\* <<1, 0>>, <<-1, 0>> and <<0, 0>>.
Rat(n, d) ==
    IF d = 0 THEN <<Sign(n), 0>>
    ELSE LET g == Gcd(Abs(n), Abs(d))
         IN  <<Sign(d) * (n \div g), Abs(d) \div g>>

RatMul(p, q) == Rat(p[1] * q[1], p[2] * q[2])

RatAdd(p, q) ==
    IF p[2] = 0 /\ q[2] = 0
    THEN (IF p = q THEN p ELSE <<0, 0>>)
    ELSE Rat(p[1] * q[2] + q[1] * p[2], p[2] * q[2])

RatDiv100(p) == Rat(p[1], p[2] * 100)

\* ------------------------------------------------------------- variables
VARIABLES
    \* run_fgi_strategy
    input,           \* the caller's table: rows [date, Close, FGI]
    buy_threshold,
    sell_threshold,
    df,              \* the local sorted copy
    idx,             \* number of rows the for loop has consumed
    position,        \* "None" or "long"
    buy_price,
    buy_date,
    trades,
    capital_atual,
    stats,
    pc,              \* "call", "loop", "close", "report", "done"
    buys             \* log of the executed buys: <<date, price>>

btVars == <<input, buy_threshold, sell_threshold, df, idx, position,
            buy_price, buy_date, trades, capital_atual, stats, pc, buys>>

VARIABLES
    \* align_series
    al_fgi,          \* argument fgi: a table, or None
    al_px,           \* argument px: a table, or None
    al_start,
    al_end,
    al_df,           \* the local df, and the returned table once al_pc = "done"
    al_pc            \* "idle", "call", "joined", "done"

alVars == <<al_fgi, al_px, al_start, al_end, al_df, al_pc>>

VARIABLES
    \* get_fgi_history
    cache,           \* the file at csv_path: whether it exists, what read_csv gives
    fg_seen,         \* log of the backends queried: <<name, outcome>>
    fg_result,       \* the returned value once fg_pc = "done"
    fg_wrote,        \* how to_csv ended in this call: "none", "ok", "failed"
    fg_pc            \* "idle", "call", "mirror", "api", "done"

fgVars == <<cache, fg_seen, fg_result, fg_wrote, fg_pc>>

VARIABLES
    \* get_btc_history
    btc_start,
    btc_end,
    today,           \* date.today()
    max_retries,
    attempt,         \* Yahoo attempts made so far
    btc_sleeps,      \* log of the time.sleep calls, in seconds
    btc_seen,        \* log of the requests made: <<backend, outcome>>
    current_start,   \* Binance: startTime of the next page, in ms
    end_ts,          \* Binance: endTime, in ms
    all_data,        \* Binance: the candles collected so far
    btc_result,      \* the returned value once btc_pc = "done"
    btc_pc           \* "idle", "call", "yahoo", "coingecko", "binance",
                     \* "page", "parse", "done"

btcVars == <<btc_start, btc_end, today, max_retries, attempt, btc_sleeps,
             btc_seen, current_start, end_ts, all_data, btc_result, btc_pc>>

VARIABLES
    \* what a caller that calls again has kept
    first,           \* an earlier call of run_fgi_strategy: arguments and result
    fg_prev          \* the previous call of get_fgi_history on the same csv_path

callerVars == <<first, fg_prev>>

VARIABLES
    \* analyze_threshold_sensitivity
    sens_df,         \* argument df
    sens_k,          \* number of threshold pairs the loops have finished
    results,         \* the list of line 158
    sens_out,        \* the returned table, or the exception raised
    sens_pc          \* "idle", "loop", "wait", "done"

sensVars == <<sens_df, sens_k, results, sens_out, sens_pc>>

vars == <<btVars, alVars, fgVars, btcVars, callerVars, sensVars>>

\* What a step of one function leaves alone: the variables of the others.
notBt == <<alVars, fgVars, btcVars, callerVars, sensVars>>

notAl == <<btVars, fgVars, btcVars, callerVars, sensVars>>

notFg == <<btVars, alVars, btcVars, callerVars, sensVars>>

notBtc == <<btVars, alVars, fgVars, callerVars, sensVars>>

\* ---------------------------------------------------- run_fgi_strategy
capital_inicial == 10000

Row(d, c, f) == [date |-> d, Close |-> c, FGI |-> f]

RECURSIVE Reverse(_)
Reverse(s) == IF s = <<>> THEN <<>> ELSE Append(Reverse(Tail(s)), Head(s))

\* The tables a caller can pass: up to MaxDays rows with distinct dates,
\* in ascending or in descending date order.
RECURSIVE SeriesOfLen(_)
SeriesOfLen(n) ==
    IF n = 0 THEN {<<>>}
    ELSE {Append(s, Row(n, c, f)) :
            s \in SeriesOfLen(n - 1), c \in CloseValues, f \in FGIValues}

\* A five-day table: closes 100, 90, 80, 70, 110 with FGI 50, 25, 20, 60, 75.
Scenario ==
    <<Row(1, 100, 50), Row(2, 90, 25), Row(3, 80, 20), Row(4, 70, 60),
      Row(5, 110, 75)>>

\* Tables with a price that is not positive: nothing in lines 22-29 keeps a
\* caller from passing one.  Closes are drawn from -90, 0 and 90.
NonPositiveCloses == {-90, 0}

RECURSIVE SeriesOver(_, _, _)
SeriesOver(n, closes, fgis) ==
    IF n = 0 THEN {<<>>}
    ELSE {Append(s, Row(n, c, f)) :
            s \in SeriesOver(n - 1, closes, fgis), c \in closes, f \in fgis}

HasNonPositiveClose(t) == \E i \in 1..Len(t) : t[i].Close <= 0

BadInputs ==
    {t \in UNION {SeriesOver(n, NonPositiveCloses \cup {90}, {30, 70}) :
                    n \in 1..MaxBadDays} : HasNonPositiveClose(t)}

Inputs ==
    LET asc == UNION {SeriesOfLen(n) : n \in 0..MaxDays}
    IN  asc \cup {Reverse(s) : s \in asc} \cup {Scenario} \cup BadInputs

\* df.sort_index(): a stable insertion sort by date.
RECURSIVE InsertByDate(_, _)
InsertByDate(r, s) ==
    IF s = <<>> THEN <<r>>
    ELSE IF Head(s).date <= r.date THEN <<Head(s)>> \o InsertByDate(r, Tail(s))
    ELSE <<r>> \o s

RECURSIVE SortIndex(_)
SortIndex(s) ==
    IF s = <<>> THEN <<>>
    ELSE InsertByDate(s[Len(s)], SortIndex(SubSeq(s, 1, Len(s) - 1)))

\* df.loc[d, 'FGI'] on a table with distinct dates.
FgiAt(t, d) == t[CHOOSE i \in 1..Len(t) : t[i].date = d].FGI

\* A buy signal that leaves out the threshold itself.
BuySignalStrict(fgi, threshold) == fgi < threshold

\* Line 43: the buy signal, read while position is None.
BuySignal(fgi, threshold) == fgi <= threshold

\* A sell signal that leaves out the threshold itself.
SellSignalStrict(fgi, threshold) == fgi > threshold

\* Line 49: the sell signal, read while position is 'long'.
SellSignal(fgi, threshold) == fgi >= threshold

\* A return measured against the sale price.
RetornoPctOfSale(sell_price, bought_at) ==
    Rat((sell_price - bought_at) * 100, sell_price)

\* Line 54: ((sell_price - buy_price) / buy_price) * 100
RetornoPct(sell_price, bought_at) == Rat((sell_price - bought_at) * 100, bought_at)

\* Line 55: capital_atual * (1 + retorno_pct/100)
ApplyReturn(capital, retorno_pct) ==
    RatMul(capital, RatAdd(<<1, 1>>, RatDiv100(retorno_pct)))

\* Lines 57-66 and 77-87: one ledger entry.  posicao_aberta is a key of the
\* forced end-of-series entry only; its absence is modelled as FALSE.
TradeRecord(bd, bp, bf, sd, sp, sf, aberta) ==
    [compra_data |-> bd, compra_preco |-> bp, compra_fgi |-> bf,
     venda_data |-> sd, venda_preco |-> sp, venda_fgi |-> sf,
     retorno_pct |-> RetornoPct(sp, bp), dias_trade |-> sd - bd,
     posicao_aberta |-> aberta]

\* Line 109: round(x, 2), on the exact fraction (ties go to the even cent).
Round2(p) ==
    IF p[2] = 0 THEN p
    ELSE LET n == p[1] * 100
             q == n \div p[2]
             r == n % p[2]
             up == (2 * r > p[2]) \/ (2 * r = p[2] /\ q % 2 = 1)
         IN  Rat(IF up THEN q + 1 ELSE q, 100)

\* Line 110: ((capital_atual - capital_inicial) / capital_inicial) * 100
RetornoTotalPct(capital) ==
    LET gain == RatAdd(capital, <<-capital_inicial, 1>>)
    IN  Rat(gain[1] * 100, gain[2] * capital_inicial)

\* Lines 98 and 124: the share of trades with a positive return, in percent.
TaxaAcertoPct(tr) ==
    LET trades_positivos == {i \in 1..Len(tr) : tr[i].retorno_pct[1] > 0}
    IN  Rat(Cardinality(trades_positivos) * 100, Len(tr))

\* Lines 90-92: the return of holding from the first close to the last.
RetornoBuyHoldPct(table) == RetornoPct(table[Len(table)].Close, table[1].Close)

\* The keys of the three dictionaries the function can return: lines 23-26,
\* 142-149 and 101-140.
EmptyKeys == {"erro", "total_dias"}

NoTradeKeys == {"erro", "periodo_inicio", "periodo_fim", "total_dias",
                "numero_trades", "retorno_total_buy_hold_pct"}

FullKeys == {"periodo_inicio", "periodo_fim", "total_dias", "capital_inicial",
             "capital_final_estrategia", "retorno_total_estrategia_pct",
             "capital_final_buy_hold", "retorno_total_buy_hold_pct",
             "diferenca_vs_buy_hold_pct", "melhor_estrategia", "numero_trades",
             "trades_positivos", "trades_negativos", "taxa_acerto_pct",
             "retorno_medio_por_trade_pct", "melhor_trade_pct", "pior_trade_pct",
             "duracao_media_trade_dias", "preco_btc_inicial", "preco_btc_final",
             "trades_detalhados"}

\* The keys whose value is a list; every other value is a number or a string.
ListKeys == {"trades_detalhados"}

\* The returned dictionary: keys is the set of its keys, and a field whose
\* key is absent holds a placeholder ("" , 0, <<>>).
NoStats == [keys |-> {}, erro |-> "", total_dias |-> 0, numero_trades |-> 0,
            capital_final_estrategia |-> <<0, 1>>,
            retorno_total_estrategia_pct |-> <<0, 1>>,
            retorno_total_buy_hold_pct |-> <<0, 1>>,
            taxa_acerto_pct |-> <<0, 1>>,
            trades_detalhados |-> <<>>]

BtInit ==
    /\ input \in Inputs
    /\ buy_threshold \in BuyThresholds
    /\ sell_threshold \in SellThresholds
    /\ df = <<>>
    /\ idx = 0
    /\ position = "None"
    /\ buy_price = 0
    /\ buy_date = 0
    /\ trades = <<>>
    /\ capital_atual = <<capital_inicial, 1>>
    /\ stats = NoStats
    /\ pc = "call"
    /\ buys = <<>>

\* Lines 22-26: an empty table returns the error dictionary at once.
RejectEmpty ==
    /\ pc = "call"
    /\ UNCHANGED notBt
    /\ input = <<>>
    /\ stats' = [NoStats EXCEPT !.keys = EmptyKeys,
                                !.erro = "Dados insuficientes para análise"]
    /\ pc' = "done"
    /\ UNCHANGED <<input, buy_threshold, sell_threshold, df, idx, position,
                   buy_price, buy_date, trades, capital_atual, buys>>

\* Lines 28-29 without the copy: the caller's table is sorted in place.
BeginInPlace ==
    /\ pc = "call"
    /\ UNCHANGED notBt
    /\ input # <<>>
    /\ input' = SortIndex(input)
    /\ df' = SortIndex(input)
    /\ position' = "None"
    /\ buy_price' = 0
    /\ trades' = <<>>
    /\ capital_atual' = <<capital_inicial, 1>>
    /\ idx' = 0
    /\ pc' = "loop"
    /\ UNCHANGED <<buy_threshold, sell_threshold, buy_date, stats, buys>>

\* Lines 28-36: copy, sort by date, initialise the locals.
Begin ==
    /\ pc = "call"
    /\ UNCHANGED notBt
    /\ input # <<>>
    /\ df' = SortIndex(input)
    /\ position' = "None"
    /\ buy_price' = 0
    /\ trades' = <<>>
    /\ capital_atual' = <<capital_inicial, 1>>
    /\ idx' = 0
    /\ pc' = "loop"
    /\ UNCHANGED <<input, buy_threshold, sell_threshold, buy_date, stats, buys>>

\* A day that goes on to test the sell condition after it bought (a second if
\* in place of the elif of line 49).
BuyThenSell ==
    /\ pc = "loop"
    /\ UNCHANGED notBt
    /\ idx < Len(df)
    /\ LET row == df[idx + 1] IN
        /\ position = "None"
        /\ BuySignal(row.FGI, buy_threshold)
        /\ buy_date' = row.date
        /\ buys' = Append(buys, <<row.date, row.Close>>)
        /\ IF SellSignal(row.FGI, sell_threshold)
           THEN /\ capital_atual' =
                     ApplyReturn(capital_atual, RetornoPct(row.Close, row.Close))
                /\ trades' = Append(trades,
                     TradeRecord(row.date, row.Close, row.FGI,
                                 row.date, row.Close, row.FGI, FALSE))
                /\ position' = "None"
                /\ buy_price' = 0
           ELSE /\ position' = "long"
                /\ buy_price' = row.Close
                /\ UNCHANGED <<capital_atual, trades>>
    /\ idx' = idx + 1
    /\ UNCHANGED <<input, buy_threshold, sell_threshold, df, stats, pc>>

\* Lines 38-46: a day on which the buy branch is taken.
Buy ==
    /\ pc = "loop"
    /\ UNCHANGED notBt
    /\ idx < Len(df)
    /\ LET row == df[idx + 1] IN
        /\ position = "None"
        /\ BuySignal(row.FGI, buy_threshold)
        /\ position' = "long"
        /\ buy_price' = row.Close
        /\ buy_date' = row.date
        /\ buys' = Append(buys, <<row.date, row.Close>>)
    /\ idx' = idx + 1
    /\ UNCHANGED <<input, buy_threshold, sell_threshold, df, trades,
                   capital_atual, stats, pc>>

\* A sale that leaves the position open (lines 68-69 left out).
SellStaysLong ==
    /\ pc = "loop"
    /\ UNCHANGED notBt
    /\ idx < Len(df)
    /\ LET row == df[idx + 1] IN
        /\ ~(position = "None" /\ BuySignal(row.FGI, buy_threshold))
        /\ position = "long"
        /\ SellSignal(row.FGI, sell_threshold)
        /\ capital_atual' =
              ApplyReturn(capital_atual, RetornoPct(row.Close, buy_price))
        /\ trades' = Append(trades,
              TradeRecord(buy_date, buy_price, FgiAt(df, buy_date),
                          row.date, row.Close, row.FGI, FALSE))
    /\ idx' = idx + 1
    /\ UNCHANGED <<input, buy_threshold, sell_threshold, df, position,
                   buy_price, buy_date, stats, pc, buys>>

\* Lines 48-69: a day on which the sell branch is taken.
Sell ==
    /\ pc = "loop"
    /\ UNCHANGED notBt
    /\ idx < Len(df)
    /\ LET row == df[idx + 1] IN
        /\ ~(position = "None" /\ BuySignal(row.FGI, buy_threshold))
        /\ position = "long"
        /\ SellSignal(row.FGI, sell_threshold)
        /\ capital_atual' =
              ApplyReturn(capital_atual, RetornoPct(row.Close, buy_price))
        /\ trades' = Append(trades,
              TradeRecord(buy_date, buy_price, FgiAt(df, buy_date),
                          row.date, row.Close, row.FGI, FALSE))
        /\ position' = "None"
        /\ buy_price' = 0
    /\ idx' = idx + 1
    /\ UNCHANGED <<input, buy_threshold, sell_threshold, df, buy_date,
                   stats, pc, buys>>

\* Lines 38-69: a day on which neither branch is taken.
Hold ==
    /\ pc = "loop"
    /\ UNCHANGED notBt
    /\ idx < Len(df)
    /\ LET row == df[idx + 1] IN
        /\ ~(position = "None" /\ BuySignal(row.FGI, buy_threshold))
        /\ ~(position = "long" /\ SellSignal(row.FGI, sell_threshold))
    /\ idx' = idx + 1
    /\ UNCHANGED <<input, buy_threshold, sell_threshold, df, position,
                   buy_price, buy_date, trades, capital_atual, stats, pc, buys>>

\* Line 38: the for loop is exhausted.
LoopEnd ==
    /\ pc = "loop"
    /\ UNCHANGED notBt
    /\ idx = Len(df)
    /\ pc' = "close"
    /\ UNCHANGED <<input, buy_threshold, sell_threshold, df, idx, position,
                   buy_price, buy_date, trades, capital_atual, stats, buys>>

\* A forced entry that is not marked as an open position.
ForcedTradeUnmarked(table, bd, bp) ==
    LET last == table[Len(table)] IN
    TradeRecord(bd, bp, FgiAt(table, bd), last.date, last.Close, last.FGI, FALSE)

\* The open position is valued at the last row (lines 72-87).
ForcedTrade(table, bd, bp) ==
    LET last == table[Len(table)] IN
    TradeRecord(bd, bp, FgiAt(table, bd), last.date, last.Close, last.FGI, TRUE)

\* An end of run that leaves the open position out of the ledger.
CloseOpenDropped ==
    /\ pc = "close"
    /\ UNCHANGED notBt
    /\ pc' = "report"
    /\ UNCHANGED <<input, buy_threshold, sell_threshold, df, idx, position,
                   buy_price, buy_date, trades, capital_atual, stats, buys>>

\* Lines 71-87: position and buy_price are left as they are.
CloseOpen ==
    /\ pc = "close"
    /\ UNCHANGED notBt
    /\ IF position = "long"
       THEN /\ capital_atual' = ApplyReturn(capital_atual,
                                    RetornoPct(df[Len(df)].Close, buy_price))
            /\ trades' = Append(trades, ForcedTrade(df, buy_date, buy_price))
       ELSE UNCHANGED <<capital_atual, trades>>
    /\ pc' = "report"
    /\ UNCHANGED <<input, buy_threshold, sell_threshold, df, idx, position,
                   buy_price, buy_date, stats, buys>>

\* Lines 95-151: the returned dictionary (the fields the properties read).
Report ==
    /\ pc = "report"
    /\ UNCHANGED notBt
    /\ stats' =
         IF trades # <<>>
         THEN [NoStats EXCEPT !.keys = FullKeys,
                              !.total_dias = Len(df),
                              !.capital_final_estrategia = Round2(capital_atual),
                              !.retorno_total_estrategia_pct =
                                  Round2(RetornoTotalPct(capital_atual)),
                              !.retorno_total_buy_hold_pct =
                                  Round2(RetornoBuyHoldPct(df)),
                              !.numero_trades = Len(trades),
                              !.taxa_acerto_pct = Round2(TaxaAcertoPct(trades)),
                              !.trades_detalhados = trades]
         ELSE [NoStats EXCEPT !.keys = NoTradeKeys,
                              !.erro = "Nenhum trade foi executado com esses parâmetros",
                              !.total_dias = Len(df),
                              !.retorno_total_buy_hold_pct =
                                  Round2(RetornoBuyHoldPct(df))]
    /\ pc' = "done"
    /\ UNCHANGED <<input, buy_threshold, sell_threshold, df, idx, position,
                   buy_price, buy_date, trades, capital_atual, buys>>

\* The arguments of a caller that calls several times: tables of up to
\* MaxCallDays days, ascending or descending, whose days are <<Close, FGI>>
\* pairs of CallDays, and two threshold pairs (the defaults of line 6, and a
\* pair with buy_threshold above sell_threshold).
CallDays == {<<90, 30>>, <<110, 30>>, <<110, 70>>}

RECURSIVE CallSeries(_)
CallSeries(n) ==
    IF n = 0 THEN {<<>>}
    ELSE LET prev == CallSeries(n - 1)
         IN  prev \cup {Append(s, Row(n, d[1], d[2])) :
                          s \in {q \in prev : Len(q) = n - 1}, d \in CallDays}

CallThresholds == {<<30, 70>>, <<70, 30>>}

CallArgs ==
    LET asc == CallSeries(MaxCallDays)
    IN  (asc \cup {Reverse(s) : s \in asc}) \X CallThresholds

\* The arguments of the call under way.
Args == <<input, <<buy_threshold, sell_threshold>>>>

NoCall == [made |-> FALSE, args |-> <<>>, stats |-> NoStats]

Call(a, r) == [made |-> TRUE, args |-> a, stats |-> r]

\* The first call of a caller that calls several times.
CallInit ==
    /\ \E a \in CallArgs :
          /\ input = a[1]
          /\ buy_threshold = a[2][1]
          /\ sell_threshold = a[2][2]
    /\ df = <<>>
    /\ idx = 0
    /\ position = "None"
    /\ buy_price = 0
    /\ buy_date = 0
    /\ trades = <<>>
    /\ capital_atual = <<capital_inicial, 1>>
    /\ stats = NoStats
    /\ pc = "call"
    /\ buys = <<>>

\* Lines 160-165: a caller calls again after a return, with the table it holds
\* or with another one.  It may keep the call that returned; the frame of
\* that call is gone, the new one starts as every call does.
CallAgain ==
    /\ pc = "done"
    /\ first' \in {first, Call(Args, stats)}
    /\ \E a \in CallArgs :
          /\ input' = a[1]
          /\ buy_threshold' = a[2][1]
          /\ sell_threshold' = a[2][2]
    /\ df' = <<>>
    /\ idx' = 0
    /\ position' = "None"
    /\ buy_price' = 0
    /\ buy_date' = 0
    /\ trades' = <<>>
    /\ capital_atual' = <<capital_inicial, 1>>
    /\ stats' = NoStats
    /\ pc' = "call"
    /\ buys' = <<>>
    /\ UNCHANGED <<alVars, fgVars, btcVars, fg_prev, sensVars>>

BtNext ==
    \/ RejectEmpty
    \/ Begin
    \/ Buy
    \/ Sell
    \/ Hold
    \/ LoopEnd
    \/ CloseOpen
    \/ Report

\* run_fgi_strategy is not being run.
BtIdle ==
    /\ input = <<>>
    /\ buy_threshold = 0
    /\ sell_threshold = 0
    /\ df = <<>>
    /\ idx = 0
    /\ position = "None"
    /\ buy_price = 0
    /\ buy_date = 0
    /\ trades = <<>>
    /\ capital_atual = <<capital_inicial, 1>>
    /\ stats = NoStats
    /\ pc = "idle"
    /\ buys = <<>>

\* ----------------------------------------------------------- tables
\* A pandas table: its value columns and its rows in index order (each row
\* carries its index value as date).  kind is "table", "None" for Python's
\* None, or "raise" for an exception in place of a value.
Table(cols, rows) == [kind |-> "table", cols |-> cols, rows |-> rows]

NoneValue == [kind |-> "None", cols |-> <<>>, rows |-> <<>>]

Raised == [kind |-> "raise", cols |-> <<>>, rows |-> <<>>]

\* df.empty / len(df) == 0
IsEmpty(t) == t.rows = <<>>

Dates(rows) == {rows[i].date : i \in 1..Len(rows)}

\* ------------------------------------------------------- align_series
\* Values of the tables given to align_series.
AlFGIValues == {30, 70}
AlCloseValues == {90, 110}

FgiRow(d, v) == [date |-> d, FGI |-> v]

PxRow(d, o, c) == [date |-> d, Open |-> o, Close |-> c]

\* Row sequences with strictly increasing dates within 1..n.
RECURSIVE FgiSeries(_)
FgiSeries(n) ==
    IF n = 0 THEN {<<>>}
    ELSE LET prev == FgiSeries(n - 1)
         IN  prev \cup {Append(s, FgiRow(n, v)) : s \in prev, v \in AlFGIValues}

RECURSIVE PxSeries(_)
PxSeries(n) ==
    IF n = 0 THEN {<<>>}
    ELSE LET prev == PxSeries(n - 1)
         IN  prev \cup {Append(s, PxRow(n, c, c)) : s \in prev, c \in AlCloseValues}

AlInit ==
    /\ al_fgi \in {NoneValue} \cup {Table(<<"FGI">>, r) : r \in FgiSeries(MaxDate)}
    /\ al_px \in {NoneValue} \cup {Table(<<"Open", "Close">>, r) : r \in PxSeries(MaxDate)}
    /\ al_start \in 1..MaxDate
    /\ al_end \in 1..MaxDate
    /\ al_df = NoneValue
    /\ al_pc = "call"

\* align_series is not being run.
AlIdle ==
    /\ al_fgi = NoneValue
    /\ al_px = NoneValue
    /\ al_start = 0
    /\ al_end = 0
    /\ al_df = NoneValue
    /\ al_pc = "idle"

\* An empty result that lacks the FGI column.
EmptyAlignedNoFgi == Table(<<"Open", "Close">>, <<>>)

\* Lines 299 and 303: pd.DataFrame(columns=["Open", "Close", "FGI"])
EmptyAligned == Table(<<"Open", "Close", "FGI">>, <<>>)

JoinedRow(p, f) == [date |-> p.date, Open |-> p.Open, Close |-> p.Close, FGI |-> f.FGI]

\* The rows one price row contributes to the inner join: one per sentiment
\* row of the same date.
RECURSIVE MatchesOf(_, _)
MatchesOf(p, f) ==
    IF f = <<>> THEN <<>>
    ELSE (IF Head(f).date = p.date THEN <<JoinedRow(p, Head(f))>> ELSE <<>>)
         \o MatchesOf(p, Tail(f))

\* The sentiment row a forward fill would give a price row: the last one dated
\* at or before it.
RECURSIVE LatestAtOrBefore(_, _)
LatestAtOrBefore(d, f) ==
    IF f = <<>> THEN <<>>
    ELSE IF f[Len(f)].date <= d THEN <<f[Len(f)]>>
    ELSE LatestAtOrBefore(d, SubSeq(f, 1, Len(f) - 1))

\* A join on the price calendar with forward-filled sentiment.
RECURSIVE JoinFfill(_, _)
JoinFfill(p, f) ==
    IF p = <<>> THEN <<>>
    ELSE LET m == LatestAtOrBefore(Head(p).date, f)
         IN  (IF m = <<>> THEN <<>> ELSE <<JoinedRow(Head(p), m[1])>>)
             \o JoinFfill(Tail(p), f)

\* Line 309: px.join(fgi, how="inner"), in the order of px.
RECURSIVE JoinInner(_, _)
JoinInner(p, f) ==
    IF p = <<>> THEN <<>>
    ELSE MatchesOf(Head(p), f) \o JoinInner(Tail(p), f)

\* A window filter that forgets the lower end.
ClipNoStart(rows, start, end) ==
    SelectSeq(rows, LAMBDA r : r.date <= end)

\* Line 314: df.loc[(df.index >= start) & (df.index <= end)]
Clip(rows, start, end) ==
    SelectSeq(rows, LAMBDA r : r.date >= start /\ r.date <= end)

\* Lines 297-299: fgi is None or empty.
AlignNoFgi ==
    /\ al_pc = "call"
    /\ UNCHANGED notAl
    /\ (al_fgi.kind = "None" \/ IsEmpty(al_fgi))
    /\ al_df' = EmptyAligned
    /\ al_pc' = "done"
    /\ UNCHANGED <<al_fgi, al_px, al_start, al_end>>

\* Lines 301-303: px is None or empty.
AlignNoPx ==
    /\ al_pc = "call"
    /\ UNCHANGED notAl
    /\ ~(al_fgi.kind = "None" \/ IsEmpty(al_fgi))
    /\ (al_px.kind = "None" \/ IsEmpty(al_px))
    /\ al_df' = EmptyAligned
    /\ al_pc' = "done"
    /\ UNCHANGED <<al_fgi, al_px, al_start, al_end>>

\* Line 309: the join keeps the columns of px followed by those of fgi.
AlignJoin ==
    /\ al_pc = "call"
    /\ UNCHANGED notAl
    /\ ~(al_fgi.kind = "None" \/ IsEmpty(al_fgi))
    /\ ~(al_px.kind = "None" \/ IsEmpty(al_px))
    /\ al_df' = Table(al_px.cols \o al_fgi.cols, JoinInner(al_px.rows, al_fgi.rows))
    /\ al_pc' = "joined"
    /\ UNCHANGED <<al_fgi, al_px, al_start, al_end>>

\* Lines 314-321: the window filter and the return.
AlignClip ==
    /\ al_pc = "joined"
    /\ UNCHANGED notAl
    /\ al_df' = Table(al_df.cols, Clip(al_df.rows, al_start, al_end))
    /\ al_pc' = "done"
    /\ UNCHANGED <<al_fgi, al_px, al_start, al_end>>

AlNext ==
    \/ AlignNoFgi
    \/ AlignNoPx
    \/ AlignJoin
    \/ AlignClip

\* ---------------------------------------------------- get_fgi_history
\* A cell of a CSV file that is not a number: astype(float) raises on it.
NonNumeric == -1

HasCol(t, c) == \E i \in 1..Len(t.cols) : t.cols[i] = c

\* fgi["FGI"].astype(float) succeeds.
Numeric(t) == \A i \in 1..Len(t.rows) : t.rows[i].FGI # NonNumeric

\* What pd.read_csv(..., parse_dates=["date"], index_col="date") can give for
\* a local file or for the mirror: an exception (unreadable, no date column),
\* or a table with or without an FGI column, empty, sorted, unsorted, with a
\* repeated date, or with a cell that is not a number.
CsvRowChoices ==
    { <<>>,
      <<FgiRow(1, 30)>>,
      <<FgiRow(1, 30), FgiRow(2, 70)>>,
      <<FgiRow(2, 70), FgiRow(1, 30)>>,
      <<FgiRow(1, 30), FgiRow(1, 50)>>,
      <<FgiRow(1, 30), FgiRow(2, NonNumeric)>> }

CsvPayloads ==
    {Raised} \cup {Table(c, r) : c \in {<<"FGI">>, <<"value">>}, r \in CsvRowChoices}

\* How a response counts for the fallback chain: "raise", "malformed",
\* "empty", or "ok" for a non-empty, well-formed table.
CsvOutcome(t) ==
    IF t.kind = "raise" THEN "raise"
    ELSE IF ~HasCol(t, "FGI") \/ ~Numeric(t) THEN "malformed"
    ELSE IF IsEmpty(t) THEN "empty"
    ELSE "ok"

\* Lines 8-11: _empty_fgi_df()
EmptyFgi == Table(<<"FGI">>, <<>>)

\* Lines 25-29, inside the try: the table to return, None to go on to the
\* mirror, or the exception that line 30 catches.
ReadLocal(t) ==
    IF t.kind = "raise" THEN Raised
    ELSE IF ~IsEmpty(t) /\ HasCol(t, "FGI")
         THEN (IF Numeric(t) THEN t ELSE Raised)
    ELSE NoneValue

\* Lines 36-37, inside the try: the table, or the exception line 48 catches.
ReadMirror(t) ==
    IF t.kind = "raise" THEN Raised
    ELSE IF ~HasCol(t, "FGI") THEN Raised
    ELSE IF ~Numeric(t) THEN Raised
    ELSE t

\* The seconds of a day, and the records of an API response.  A record is a
\* dict or something else; its timestamp is Unix seconds, a MM-DD-YYYY string
\* (of day mdy), missing, or unparsable; its value is a number, missing, or
\* unparsable.
DaySeconds == 86400

ApiRecord(shape, tsKind, ts, valKind, v) ==
    [shape |-> shape, tsKind |-> tsKind, ts |-> ts, valKind |-> valKind, v |-> v]

ApiRecords ==
    { ApiRecord("dict", "unix", DaySeconds, "num", 30),
      ApiRecord("dict", "unix", DaySeconds + 3600, "num", 70),
      ApiRecord("dict", "unix", 2 * DaySeconds, "num", 50),
      ApiRecord("dict", "mdy", 3, "num", 30),
      ApiRecord("dict", "none", 0, "num", 30),
      ApiRecord("dict", "unix", DaySeconds, "none", 0),
      ApiRecord("dict", "bad", 0, "num", 30),
      ApiRecord("dict", "unix", 2 * DaySeconds, "bad", 0),
      ApiRecord("other", "none", 0, "none", 0) }

RECURSIVE SeqsUpTo(_, _)
SeqsUpTo(S, n) ==
    IF n = 0 THEN {<<>>}
    ELSE LET prev == SeqsUpTo(S, n - 1)
         IN  prev \cup {Append(q, x) : q \in {p \in prev : Len(p) = n - 1}, x \in S}

\* A response of the API: an exception (network, HTTP status, JSON), or the
\* list under "data".
ApiResponses ==
    {[kind |-> "raise", data |-> <<>>]}
    \cup {[kind |-> "json", data |-> d] : d \in SeqsUpTo(ApiRecords, MaxRecords)}

\* Lines 73-89: the row of one dict record, or nothing when it is skipped.
ParseRecord(d) ==
    IF d.tsKind = "none" \/ d.valKind = "none" THEN <<>>
    ELSE IF d.tsKind = "bad" \/ d.valKind = "bad" THEN <<>>
    ELSE IF d.tsKind = "unix" THEN <<FgiRow(d.ts \div DaySeconds, d.v)>>
    ELSE <<FgiRow(d.ts, d.v)>>

RECURSIVE ParseRecords(_)
ParseRecords(data) ==
    IF data = <<>> THEN <<>>
    ELSE ParseRecord(Head(data)) \o ParseRecords(Tail(data))

\* drop_duplicates(subset=["date"]): the first row of each date is kept.
RECURSIVE KeepFirst(_, _)
KeepFirst(rows, had) ==
    IF rows = <<>> THEN <<>>
    ELSE IF Head(rows).date \in had THEN KeepFirst(Tail(rows), had)
    ELSE <<Head(rows)>> \o KeepFirst(Tail(rows), had \cup {Head(rows).date})

DropDuplicates(rows) == KeepFirst(rows, {})

\* A fetch that lets the exception of the request reach its caller.
FetchFgiFromApiUncaught(resp) ==
    IF resp.kind = "raise" THEN Raised
    ELSE IF resp.data = <<>> THEN EmptyFgi
    ELSE IF \E i \in 1..Len(resp.data) : resp.data[i].shape # "dict" THEN Raised
    ELSE LET rows == ParseRecords(resp.data)
         IN  IF rows = <<>> THEN EmptyFgi
             ELSE Table(<<"FGI">>, SortIndex(DropDuplicates(rows)))

\* Lines 55-106: _fetch_fgi_from_api.  The request, the JSON decoding and a
\* record that is no dict (d.get raises) end in the except of line 104.
FetchFgiFromApi(resp) ==
    IF resp.kind = "raise" THEN EmptyFgi
    ELSE IF resp.data = <<>> THEN EmptyFgi
    ELSE IF \E i \in 1..Len(resp.data) : resp.data[i].shape # "dict" THEN EmptyFgi
    ELSE LET rows == ParseRecords(resp.data)
         IN  IF rows = <<>> THEN EmptyFgi
             ELSE Table(<<"FGI">>, SortIndex(DropDuplicates(rows)))

ApiOutcome(resp) ==
    IF resp.kind = "raise" THEN "raise"
    ELSE IF resp.data = <<>> THEN "empty"
    ELSE IF \E i \in 1..Len(resp.data) : resp.data[i].shape # "dict" THEN "malformed"
    ELSE IF ParseRecords(resp.data) = <<>> THEN "malformed"
    ELSE "ok"

NoFile == [exists |-> FALSE, content |-> Raised]

File(t) == [exists |-> TRUE, content |-> t]

\* What the caller keeps of a call that returned.
NoFgCall == [made |-> FALSE, seen |-> <<>>, result |-> NoneValue, wrote |-> "none"]

FgCall(seen, result, wrote) ==
    [made |-> TRUE, seen |-> seen, result |-> result, wrote |-> wrote]

FgInit ==
    /\ cache \in {NoFile} \cup {File(t) : t \in CsvPayloads}
    /\ fg_seen = <<>>
    /\ fg_result = NoneValue
    /\ fg_wrote = "none"
    /\ fg_pc = "call"

\* get_fgi_history is not being run.
FgIdle ==
    /\ cache = NoFile
    /\ fg_seen = <<>>
    /\ fg_result = NoneValue
    /\ fg_wrote = "none"
    /\ fg_pc = "idle"

\* Line 23: there is no file at csv_path.
FgNoLocal ==
    /\ fg_pc = "call"
    /\ UNCHANGED notFg
    /\ ~cache.exists
    /\ fg_pc' = "mirror"
    /\ UNCHANGED <<cache, fg_seen, fg_result, fg_wrote>>

\* Lines 23-29: the local file is returned.
FgLocalHit ==
    /\ fg_pc = "call"
    /\ UNCHANGED notFg
    /\ cache.exists
    /\ ReadLocal(cache.content).kind = "table"
    /\ fg_seen' = Append(fg_seen, <<"local", CsvOutcome(cache.content)>>)
    /\ fg_result' = ReadLocal(cache.content)
    /\ fg_pc' = "done"
    /\ UNCHANGED <<cache, fg_wrote>>

\* Lines 23-31: the local file is unreadable, empty or without a usable FGI
\* column.
FgLocalMiss ==
    /\ fg_pc = "call"
    /\ UNCHANGED notFg
    /\ cache.exists
    /\ ReadLocal(cache.content).kind # "table"
    /\ fg_seen' = Append(fg_seen, <<"local", CsvOutcome(cache.content)>>)
    /\ fg_pc' = "mirror"
    /\ UNCHANGED <<cache, fg_result, fg_wrote>>

\* Line 42: fgi.to_csv(csv_path) writes a header line, the index name followed
\* by the column names, and one line per row.
ToCsv(t) ==
    <<<<"date">> \o t.cols>>
    \o [i \in 1..Len(t.rows) |-> <<t.rows[i].date, t.rows[i].FGI>>]

\* Line 25: pd.read_csv(csv_path, parse_dates=["date"], index_col="date") of
\* such a file: the columns after date, and the rows in file order.
ReadCsv(lines) ==
    IF lines = <<>> THEN Raised
    ELSE IF lines[1] = <<>> \/ lines[1][1] # "date" THEN Raised
    ELSE Table(Tail(lines[1]),
               [i \in 1..(Len(lines) - 1) |->
                   FgiRow(lines[i + 1][1], lines[i + 1][2])])

\* Lines 34-47: the mirror answers with a table that has a numeric FGI column;
\* it is written to csv_path (a failed write is swallowed and may leave the
\* file as it was, or unreadable) and returned.
FgMirrorHit ==
    /\ fg_pc = "mirror"
    /\ UNCHANGED notFg
    /\ \E t \in CsvPayloads :
        /\ ReadMirror(t).kind = "table"
        /\ fg_seen' = Append(fg_seen, <<"mirror", CsvOutcome(t)>>)
        /\ \/ /\ fg_wrote' = "ok"
              /\ cache' = File(ReadCsv(ToCsv(ReadMirror(t))))
           \/ /\ fg_wrote' = "failed"
              /\ cache' \in {cache, File(Raised)}
        /\ fg_result' = ReadMirror(t)
    /\ fg_pc' = "done"

\* Lines 34-49: reading the mirror raises.
FgMirrorMiss ==
    /\ fg_pc = "mirror"
    /\ UNCHANGED notFg
    /\ \E t \in CsvPayloads :
        /\ ReadMirror(t).kind = "raise"
        /\ fg_seen' = Append(fg_seen, <<"mirror", CsvOutcome(t)>>)
    /\ fg_pc' = "api"
    /\ UNCHANGED <<cache, fg_result, fg_wrote>>

\* Lines 52-53: return _fetch_fgi_from_api()
FgApi ==
    /\ fg_pc = "api"
    /\ UNCHANGED notFg
    /\ \E resp \in ApiResponses :
        /\ fg_seen' = Append(fg_seen, <<"api", ApiOutcome(resp)>>)
        /\ fg_result' = FetchFgiFromApi(resp)
    /\ fg_pc' = "done"
    /\ UNCHANGED <<cache, fg_wrote>>

\* The caller calls get_fgi_history again with the same csv_path, keeping
\* what the call that returned did; nothing else touches the file in between.
FgCallAgain ==
    /\ fg_pc = "done"
    /\ fg_prev' = FgCall(fg_seen, fg_result, fg_wrote)
    /\ fg_seen' = <<>>
    /\ fg_result' = NoneValue
    /\ fg_wrote' = "none"
    /\ fg_pc' = "call"
    /\ UNCHANGED <<cache, first, btVars, alVars, btcVars, sensVars>>

FgNext ==
    \/ FgNoLocal
    \/ FgLocalHit
    \/ FgLocalMiss
    \/ FgMirrorHit
    \/ FgMirrorMiss
    \/ FgApi
    \/ FgCallAgain

\* ---------------------------------------------------- get_btc_history
\* A price cell that is NaN: dropna() drops its row.
NaN == -1

\* Line 261: one day in milliseconds.
DayMs == 86400000

\* Line 247: rows per Binance page.  The code asks for 1000; pages of 2 let a
\* full page, and so a second request, happen within MaxBtcDate days.
PageLimit == 2

\* Lines 130 and 291: pd.DataFrame(columns=["Open", "Close"])
EmptyPx == Table(<<"Open", "Close">>, <<>>)

\* What yf.download can give: an exception, None, an empty table, a table
\* without a Close column, rows that are all or partly NaN, extra columns.
YahooResponses ==
    { Raised, NoneValue,
      Table(<<"Open", "Close">>, <<>>),
      Table(<<"Open">>, <<PxRow(1, 90, 90)>>),
      Table(<<"Open", "Close">>, <<PxRow(1, NaN, NaN)>>),
      Table(<<"Open", "Close">>, <<PxRow(1, 90, NaN), PxRow(2, 90, 110)>>),
      Table(<<"Open", "Close", "Volume">>, <<PxRow(1, 90, 110), PxRow(2, 110, 90)>>) }

\* Line 167: .dropna()
DropNa(rows) == SelectSeq(rows, LAMBDA r : r.Open # NaN /\ r.Close # NaN)

\* Lines 146-175, inside the try: the table line 171 returns, or the
\* exception that line 177 catches.
YahooResult(resp) ==
    IF resp.kind = "raise" THEN Raised
    ELSE IF resp.kind = "None" \/ IsEmpty(resp) THEN Raised
    ELSE IF ~HasCol(resp, "Open") \/ ~HasCol(resp, "Close") THEN Raised
    ELSE IF Len(DropNa(resp.rows)) > 0
         THEN Table(<<"Open", "Close">>, DropNa(resp.rows))
    ELSE Raised

YahooOutcome(resp) ==
    IF resp.kind = "raise" THEN "raise"
    ELSE IF resp.kind = "None" \/ IsEmpty(resp) THEN "empty"
    ELSE IF ~HasCol(resp, "Open") \/ ~HasCol(resp, "Close") THEN "malformed"
    ELSE IF DropNa(resp.rows) = <<>> THEN "empty"
    ELSE "ok"

\* Line 180: wait_time = (attempt + 1) * 2
WaitTime(k) == (k + 1) * 2

\* A (timestamp in ms, price) pair of CoinGecko, or a Binance candle; ok is
\* FALSE when its price fields cannot be converted by float().
Tick(ts, o, c, ok) == [ts |-> ts, open |-> o, close |-> c, ok |-> ok]

\* What the CoinGecko request can give: an exception, or the list "prices".
GeckoResponses ==
    { [kind |-> "raise", data |-> <<>>],
      [kind |-> "json", data |-> <<>>],
      [kind |-> "json", data |-> <<Tick(DayMs, 90, 90, TRUE)>>],
      [kind |-> "json", data |-> <<Tick(DayMs, 90, 90, TRUE),
                                   Tick(DayMs + 3600000, 110, 110, TRUE),
                                   Tick(2 * DayMs, 110, 110, TRUE)>>],
      [kind |-> "json", data |-> <<Tick(2 * DayMs, 110, 110, TRUE),
                                   Tick(DayMs, 90, 90, TRUE)>>],
      [kind |-> "json", data |-> <<Tick(DayMs, 90, 90, TRUE),
                                   Tick(2 * DayMs, 0, 0, FALSE)>>] }

\* Lines 212-218 and 272-278: one row per tick, dated by its day.
RECURSIVE TickRows(_)
TickRows(data) ==
    IF data = <<>> THEN <<>>
    ELSE <<PxRow(Head(data).ts \div DayMs, Head(data).open, Head(data).close)>>
         \o TickRows(Tail(data))

AllOk(data) == \A i \in 1..Len(data) : data[i].ok

\* Lines 202-222 and 266-282, inside the try: the table returned, or the
\* exception that the except catches (request failure, empty list, a price
\* that float() rejects).
TicksResult(resp) ==
    IF resp.kind = "raise" THEN Raised
    ELSE IF resp.data = <<>> THEN Raised
    ELSE IF ~AllOk(resp.data) THEN Raised
    ELSE Table(<<"Open", "Close">>, DropDuplicates(TickRows(resp.data)))

TicksOutcome(resp) ==
    IF resp.kind = "raise" THEN "raise"
    ELSE IF resp.data = <<>> THEN "empty"
    ELSE IF ~AllOk(resp.data) THEN "malformed"
    ELSE "ok"

\* The candles Binance can return for a page: ascending days inside
\* [startTime, endTime], at most PageLimit of them, the last one possibly
\* with unparsable prices; or an exception.
DaysIn(lo, hi) == {d \in 0..(MaxBtcDate + 1) : lo <= d * DayMs /\ d * DayMs <= hi}

RECURSIVE AscendingDays(_, _)
AscendingDays(D, n) ==
    IF n = 0 THEN {<<>>}
    ELSE LET prev == AscendingDays(D, n - 1)
         IN  prev \cup UNION {{Append(q, d) : d \in {x \in D : \A i \in 1..Len(q) : q[i] < x}} :
                                q \in {p \in prev : Len(p) = n - 1}}

Candles(days, lastOk) ==
    [i \in 1..Len(days) |->
        Tick(days[i] * DayMs, 90, 110, (i < Len(days)) \/ lastOk)]

BinancePages(lo, hi) ==
    {[kind |-> "raise", data |-> <<>>]}
    \cup {[kind |-> "json", data |-> Candles(q, ok)] :
            q \in AscendingDays(DaysIn(lo, hi), PageLimit), ok \in BOOLEAN}

BtcInit ==
    /\ btc_start \in 1..MaxBtcDate
    /\ btc_end \in 1..MaxBtcDate
    /\ today \in 1..MaxBtcDate
    /\ max_retries \in 0..MaxRetries
    /\ attempt = 0
    /\ btc_sleeps = <<>>
    /\ btc_seen = <<>>
    /\ current_start = 0
    /\ end_ts = 0
    /\ all_data = <<>>
    /\ btc_result = NoneValue
    /\ btc_pc = "call"

\* get_btc_history is not being run.
BtcIdle ==
    /\ btc_start = 0
    /\ btc_end = 0
    /\ today = 0
    /\ max_retries = 0
    /\ attempt = 0
    /\ btc_sleeps = <<>>
    /\ btc_seen = <<>>
    /\ current_start = 0
    /\ end_ts = 0
    /\ all_data = <<>>
    /\ btc_result = NoneValue
    /\ btc_pc = "idle"

\* A call that skips the validation of the dates and goes on to the backends.
BtcRejectSkipped ==
    /\ btc_pc = "call"
    /\ UNCHANGED notBtc
    /\ btc_start > btc_end
    /\ btc_pc' = "yahoo"
    /\ UNCHANGED <<btc_start, btc_end, today, max_retries, attempt, btc_sleeps,
                   btc_seen, current_start, end_ts, all_data, btc_result>>

\* Lines 128-130: start > end.
BtcReject ==
    /\ btc_pc = "call"
    /\ UNCHANGED notBtc
    /\ btc_start > btc_end
    /\ btc_result' = EmptyPx
    /\ btc_pc' = "done"
    /\ UNCHANGED <<btc_start, btc_end, today, max_retries, attempt, btc_sleeps,
                   btc_seen, current_start, end_ts, all_data>>

\* Lines 133-136: end is clamped to today.
BtcBegin ==
    /\ btc_pc = "call"
    /\ UNCHANGED notBtc
    /\ btc_start <= btc_end
    /\ btc_end' = IF btc_end > today THEN today ELSE btc_end
    /\ attempt' = 0
    /\ btc_pc' = "yahoo"
    /\ UNCHANGED <<btc_start, today, max_retries, btc_sleeps, btc_seen,
                   current_start, end_ts, all_data, btc_result>>

\* Lines 139-171: an attempt that returns.
YahooHit ==
    /\ btc_pc = "yahoo"
    /\ UNCHANGED notBtc
    /\ attempt < max_retries
    /\ \E resp \in YahooResponses :
        /\ YahooResult(resp).kind = "table"
        /\ btc_seen' = Append(btc_seen, <<"yahoo", YahooOutcome(resp)>>)
        /\ btc_result' = YahooResult(resp)
    /\ btc_pc' = "done"
    /\ UNCHANGED <<btc_start, btc_end, today, max_retries, attempt, btc_sleeps,
                   current_start, end_ts, all_data>>

\* Lines 139-184: an attempt that fails, whatever the exception; it sleeps
\* unless it was the last one.
YahooFail ==
    /\ btc_pc = "yahoo"
    /\ UNCHANGED notBtc
    /\ attempt < max_retries
    /\ \E resp \in YahooResponses :
        /\ YahooResult(resp).kind = "raise"
        /\ btc_seen' = Append(btc_seen, <<"yahoo", YahooOutcome(resp)>>)
    /\ btc_sleeps' = IF attempt < max_retries - 1
                     THEN Append(btc_sleeps, WaitTime(attempt))
                     ELSE btc_sleeps
    /\ attempt' = attempt + 1
    /\ UNCHANGED <<btc_start, btc_end, today, max_retries, current_start,
                   end_ts, all_data, btc_result, btc_pc>>

\* Line 139: range(max_retries) is exhausted.
YahooExhausted ==
    /\ btc_pc = "yahoo"
    /\ UNCHANGED notBtc
    /\ attempt >= max_retries
    /\ btc_pc' = "coingecko"
    /\ UNCHANGED <<btc_start, btc_end, today, max_retries, attempt, btc_sleeps,
                   btc_seen, current_start, end_ts, all_data, btc_result>>

\* Lines 187-222: CoinGecko returns.
GeckoHit ==
    /\ btc_pc = "coingecko"
    /\ UNCHANGED notBtc
    /\ \E resp \in GeckoResponses :
        /\ TicksResult(resp).kind = "table"
        /\ btc_seen' = Append(btc_seen, <<"coingecko", TicksOutcome(resp)>>)
        /\ btc_result' = TicksResult(resp)
    /\ btc_pc' = "done"
    /\ UNCHANGED <<btc_start, btc_end, today, max_retries, attempt, btc_sleeps,
                   current_start, end_ts, all_data>>

\* Lines 187-225: CoinGecko fails.
GeckoFail ==
    /\ btc_pc = "coingecko"
    /\ UNCHANGED notBtc
    /\ \E resp \in GeckoResponses :
        /\ TicksResult(resp).kind = "raise"
        /\ btc_seen' = Append(btc_seen, <<"coingecko", TicksOutcome(resp)>>)
    /\ btc_pc' = "binance"
    /\ UNCHANGED <<btc_start, btc_end, today, max_retries, attempt, btc_sleeps,
                   current_start, end_ts, all_data, btc_result>>

\* Lines 232-238: the window in ms and the empty collection.
BinanceBegin ==
    /\ btc_pc = "binance"
    /\ UNCHANGED notBtc
    /\ current_start' = btc_start * DayMs
    /\ end_ts' = btc_end * DayMs
    /\ all_data' = <<>>
    /\ btc_pc' = "page"
    /\ UNCHANGED <<btc_start, btc_end, today, max_retries, attempt, btc_sleeps,
                   btc_seen, btc_result>>

\* A request of the loop whose next window starts at the last candle itself
\* (line 261 without the added day).
BinancePageNoAdvance ==
    /\ btc_pc = "page"
    /\ UNCHANGED notBtc
    /\ current_start < end_ts
    /\ \E resp \in BinancePages(current_start, end_ts) :
        /\ resp.kind = "json"
        /\ btc_seen' = Append(btc_seen, <<"binance", TicksOutcome(resp)>>)
        /\ all_data' = all_data \o resp.data
        /\ current_start' = IF resp.data = <<>> THEN current_start
                            ELSE resp.data[Len(resp.data)].ts
        /\ btc_pc' = IF resp.data = <<>> \/ Len(resp.data) < PageLimit
                     THEN "parse" ELSE "page"
    /\ UNCHANGED <<btc_start, btc_end, today, max_retries, attempt, btc_sleeps,
                   end_ts, btc_result>>

\* Lines 241-264: one request of the while loop that answers.  An empty page
\* or one shorter than the limit ends the loop.
BinancePage ==
    /\ btc_pc = "page"
    /\ UNCHANGED notBtc
    /\ current_start < end_ts
    /\ \E resp \in BinancePages(current_start, end_ts) :
        /\ resp.kind = "json"
        /\ btc_seen' = Append(btc_seen, <<"binance", TicksOutcome(resp)>>)
        /\ all_data' = all_data \o resp.data
        /\ current_start' = IF resp.data = <<>> THEN current_start
                            ELSE resp.data[Len(resp.data)].ts + DayMs
        /\ btc_pc' = IF resp.data = <<>> \/ Len(resp.data) < PageLimit
                     THEN "parse" ELSE "page"
    /\ UNCHANGED <<btc_start, btc_end, today, max_retries, attempt, btc_sleeps,
                   end_ts, btc_result>>

\* Lines 250-251, 284-291: a request of the loop raises; everything falls
\* through to the empty table.
BinanceRaise ==
    /\ btc_pc = "page"
    /\ UNCHANGED notBtc
    /\ current_start < end_ts
    /\ btc_seen' = Append(btc_seen, <<"binance", "raise">>)
    /\ btc_result' = EmptyPx
    /\ btc_pc' = "done"
    /\ UNCHANGED <<btc_start, btc_end, today, max_retries, attempt, btc_sleeps,
                   current_start, end_ts, all_data>>

\* Line 241: the window is used up.
BinanceLoopEnd ==
    /\ btc_pc = "page"
    /\ UNCHANGED notBtc
    /\ current_start >= end_ts
    /\ btc_pc' = "parse"
    /\ UNCHANGED <<btc_start, btc_end, today, max_retries, attempt, btc_sleeps,
                   btc_seen, current_start, end_ts, all_data, btc_result>>

\* Lines 266-291: the collected candles become the table, or the except of
\* line 284 and the empty table of line 291.
BinanceParse ==
    /\ btc_pc = "parse"
    /\ UNCHANGED notBtc
    /\ LET r == TicksResult([kind |-> "json", data |-> all_data])
       IN  btc_result' = IF r.kind = "table" THEN r ELSE EmptyPx
    /\ btc_pc' = "done"
    /\ UNCHANGED <<btc_start, btc_end, today, max_retries, attempt, btc_sleeps,
                   btc_seen, current_start, end_ts, all_data>>

BtcNext ==
    \/ BtcReject
    \/ BtcBegin
    \/ YahooHit
    \/ YahooFail
    \/ YahooExhausted
    \/ GeckoHit
    \/ GeckoFail
    \/ BinanceBegin
    \/ BinancePage
    \/ BinanceRaise
    \/ BinanceLoopEnd
    \/ BinanceParse

\* --------------------------------------- analyze_threshold_sensitivity
\* Lines 160-161: range(20, 45, 5) and range(60, 85, 5).
BuyLevels == <<20, 25, 30, 35, 40>>

SellLevels == <<60, 65, 70, 75, 80>>

\* Lines 160-163: the pairs in the order the two loops reach them, without
\* those that line 162 skips.
AllPairs ==
    [k \in 1..(Len(BuyLevels) * Len(SellLevels)) |->
        <<BuyLevels[((k - 1) \div Len(SellLevels)) + 1],
          SellLevels[((k - 1) % Len(SellLevels)) + 1]>>]

SensPairs == SelectSeq(AllPairs, LAMBDA pr : ~(pr[2] <= pr[1]))

\* The tables given to the analysis: up to MaxSensDays days in ascending
\* order, with FGI values below and between the buy levels and among the
\* sell levels, and one three-day table on which the pairs differ in return.
SensCloses == {90, 110}

SensFGI == {25, 35, 75}

SensScenario == <<Row(1, 90, 35), Row(2, 110, 25), Row(3, 110, 75)>>

SensInputs ==
    UNION {SeriesOver(n, SensCloses, SensFGI) : n \in 0..MaxSensDays}
    \cup {SensScenario}

\* Lines 168-174: the row kept for a pair that traded.
SensRow(pr, st) ==
    [buy_threshold |-> pr[1], sell_threshold |-> pr[2],
     retorno_pct |-> st.retorno_total_estrategia_pct,
     num_trades |-> st.numero_trades,
     taxa_acerto |-> st.taxa_acerto_pct]

RatLess(p, q) == p[1] * q[2] < q[1] * p[2]

\* Line 176: sort_values('retorno_pct', ascending=False), as an insertion
\* sort.  The order pandas gives to rows of equal return is not modelled.
RECURSIVE InsertByReturn(_, _)
InsertByReturn(r, rows) ==
    IF rows = <<>> THEN <<r>>
    ELSE IF RatLess(Head(rows).retorno_pct, r.retorno_pct)
         THEN <<r>> \o rows
    ELSE <<Head(rows)>> \o InsertByReturn(r, Tail(rows))

RECURSIVE SortByReturn(_)
SortByReturn(rows) ==
    IF rows = <<>> THEN <<>>
    ELSE InsertByReturn(rows[Len(rows)],
                        SortByReturn(SubSeq(rows, 1, Len(rows) - 1)))

SensCols ==
    <<"buy_threshold", "sell_threshold", "retorno_pct", "num_trades",
      "taxa_acerto">>

\* Line 176: pd.DataFrame([]) has no column, and sort_values raises KeyError
\* for the missing 'retorno_pct'.
SortedTable(rows) ==
    IF rows = <<>> THEN Raised ELSE Table(SensCols, SortByReturn(rows))

SensInit ==
    /\ sens_df \in SensInputs
    /\ sens_k = 0
    /\ results = <<>>
    /\ sens_out = NoneValue
    /\ sens_pc = "loop"

\* analyze_threshold_sensitivity is not being run.
SensIdle ==
    /\ sens_df = <<>>
    /\ sens_k = 0
    /\ results = <<>>
    /\ sens_out = NoneValue
    /\ sens_pc = "idle"

\* Line 165: the next pair is passed to run_fgi_strategy.
SensCall ==
    /\ sens_pc = "loop"
    /\ sens_k < Len(SensPairs)
    /\ input' = sens_df
    /\ buy_threshold' = SensPairs[sens_k + 1][1]
    /\ sell_threshold' = SensPairs[sens_k + 1][2]
    /\ df' = <<>>
    /\ idx' = 0
    /\ position' = "None"
    /\ buy_price' = 0
    /\ buy_date' = 0
    /\ trades' = <<>>
    /\ capital_atual' = <<capital_inicial, 1>>
    /\ stats' = NoStats
    /\ pc' = "call"
    /\ buys' = <<>>
    /\ sens_pc' = "wait"
    /\ UNCHANGED <<sens_df, sens_k, results, sens_out>>
    /\ UNCHANGED <<alVars, fgVars, btcVars, callerVars>>

\* Lines 167-174: the call returned; its row is kept unless the dictionary
\* has the key 'erro'.
SensCollect ==
    /\ sens_pc = "wait"
    /\ pc = "done"
    /\ results' = IF "erro" \notin stats.keys
                  THEN Append(results, SensRow(SensPairs[sens_k + 1], stats))
                  ELSE results
    /\ sens_k' = sens_k + 1
    /\ sens_pc' = "loop"
    /\ UNCHANGED <<sens_df, sens_out>>
    /\ UNCHANGED <<btVars, alVars, fgVars, btcVars, callerVars>>

\* Line 176: the loops are over; the list becomes a table and is sorted.
SensSort ==
    /\ sens_pc = "loop"
    /\ sens_k = Len(SensPairs)
    /\ sens_out' = SortedTable(results)
    /\ sens_pc' = "done"
    /\ UNCHANGED <<sens_df, sens_k, results>>
    /\ UNCHANGED <<btVars, alVars, fgVars, btcVars, callerVars>>

\* ------------------------------------------------------ specifications
\* No caller has kept anything yet.
CallerIdle == first = NoCall /\ fg_prev = NoFgCall

\* One call of run_fgi_strategy.
Init == BtInit /\ AlIdle /\ FgIdle /\ BtcIdle /\ CallerIdle /\ SensIdle

Next == BtNext

Spec == Init /\ [][Next]_vars

\* One call of align_series.
InitAlign == AlInit /\ BtIdle /\ FgIdle /\ BtcIdle /\ CallerIdle /\ SensIdle

NextAlign == AlNext

SpecAlign == InitAlign /\ [][NextAlign]_vars

\* One call of get_fgi_history, or one call of get_btc_history.
InitFetch ==
    /\ BtIdle
    /\ AlIdle
    /\ CallerIdle
    /\ SensIdle
    /\ \/ FgInit /\ BtcIdle
       \/ FgIdle /\ BtcInit

NextFetch == FgNext \/ BtcNext

SpecFetch == InitFetch /\ [][NextFetch]_vars

\* One call of get_btc_history that is not left waiting: the function is
\* sequential code, so whenever it has a next step it takes one.  The caller
\* asks for at most one Yahoo attempt, which leaves the ways into the Binance
\* loop as they are.
InitBtc ==
    /\ BtcInit
    /\ max_retries \in {0, 1}
    /\ BtIdle
    /\ AlIdle
    /\ FgIdle
    /\ CallerIdle
    /\ SensIdle

NextBtc == BtcNext

SpecBtc == InitBtc /\ [][NextBtc]_vars /\ WF_vars(NextBtc)

\* Any number of calls of run_fgi_strategy, one after the other.
InitCalls ==
    CallInit /\ AlIdle /\ FgIdle /\ BtcIdle /\ CallerIdle /\ SensIdle

NextCalls == BtNext \/ CallAgain

SpecCalls == InitCalls /\ [][NextCalls]_vars

\* One call of analyze_threshold_sensitivity, with the calls it makes.
InitSens == SensInit /\ BtIdle /\ AlIdle /\ FgIdle /\ BtcIdle /\ CallerIdle

NextSens == BtNext \/ SensCall \/ SensCollect \/ SensSort

SpecSens == InitSens /\ [][NextSens]_vars

\* ------------------------------------------------- properties of the engine
InDay == pc = "loop" /\ idx < Len(df)

Today == df[idx + 1]

Returned == pc = "done" /\ input # <<>>

\* C1 (as stated): while Flat, a day opens a position exactly when its FGI is
\* strictly below buy_threshold; a day whose FGI equals buy_threshold opens none.
C1_BuyStrictlyBelow ==
    [][(InDay /\ position = "None")
        => ((position' = "long") <=> (Today.FGI < buy_threshold))]_vars

\* C1 (amended): while Flat, a day opens a position exactly when its FGI is at
\* or below buy_threshold, so the buy fires on the first such day in ascending
\* date order, at that day's Close.
C1_BuyAtOrBelow ==
    [][(InDay /\ position = "None")
        => /\ (position' = "long") <=> (Today.FGI <= buy_threshold)
           /\ position' = "long" => (buy_price' = Today.Close /\ buy_date' = Today.date)]_vars

\* A position was opened on a day whose FGI equals buy_threshold.
C1_Witness ==
    \E i \in 1..Len(buys) : FgiAt(df, buys[i][1]) = buy_threshold

\* C2 (as stated): while Long, a day closes the position exactly when its FGI is
\* strictly above sell_threshold; a day whose FGI equals sell_threshold closes none.
C2_SellStrictlyAbove ==
    [][(InDay /\ position = "long")
        => ((position' = "None") <=> (Today.FGI > sell_threshold))]_vars

\* C2 (amended): while Long, a day closes the position exactly when its FGI is
\* at or above sell_threshold, so the sell fires on the first such day after the
\* entry, and records that day's date and Close.
C2_SellAtOrAbove ==
    [][(InDay /\ position = "long")
        => /\ (position' = "None") <=> (Today.FGI >= sell_threshold)
           /\ position' = "None" =>
                /\ Len(trades') = Len(trades) + 1
                /\ trades'[Len(trades')].venda_data = Today.date
                /\ trades'[Len(trades')].venda_preco = Today.Close]_vars

\* A signal sell was recorded on a day whose FGI equals sell_threshold.
C2_Witness ==
    \E i \in 1..Len(trades) :
        ~trades[i].posicao_aberta /\ trades[i].venda_fgi = sell_threshold

\* C3: a run that is still Long after the last day records exactly one forced
\* sell, last in the ledger, at the last row's date and Close, and it is the only
\* entry with posicao_aberta; a run that ends Flat records no such entry.
\* (position is not reset by the forced sell, so at the return it still tells
\* how the loop ended.)
C3_ForcedLiquidation ==
    Returned =>
        LET n == Len(trades)
            flagged == {i \in 1..n : trades[i].posicao_aberta}
            last == df[Len(df)]
        IN  /\ stats.trades_detalhados = trades
            /\ position = "long" =>
                 /\ n >= 1
                 /\ flagged = {n}
                 /\ trades[n].venda_preco = last.Close
                 /\ trades[n].venda_data = last.date
                 /\ trades[n].compra_data = buy_date
                 /\ trades[n].compra_preco = buy_price
            /\ position = "None" => flagged = {}

\* A run returned with a signal sell followed by a forced sell.
C3_Witness ==
    /\ Returned
    /\ position = "long"
    /\ Len(trades) = 2
    /\ ~trades[1].posicao_aberta

\* C4: at the return every executed buy is in the ledger paired with exactly one
\* sell on or after it, in order, and the ledger holds nothing else: the number
\* of buys equals the number of sells.
C4_BuysEqualSells ==
    pc = "done" =>
        /\ Len(trades) = Len(buys)
        /\ stats.numero_trades = Len(buys)
        /\ \A i \in 1..Len(trades) :
              /\ trades[i].compra_data = buys[i][1]
              /\ trades[i].compra_preco = buys[i][2]
              /\ trades[i].venda_data >= trades[i].compra_data
        /\ \A i \in 1..(Len(trades) - 1) :
              trades[i].venda_data <= trades[i + 1].compra_data

\* A run returned with two buys, the second one closed by the forced sell on
\* the day it was opened.
C4_Witness ==
    /\ pc = "done"
    /\ Len(buys) = 2
    /\ trades[2].posicao_aberta
    /\ trades[2].venda_data = trades[2].compra_data

\* C10 (as stated): for every fee rate f (in percent) a single round trip with
\* entry price equal to exit price leaves capital_inicial x (1-f/100)^2.
C10_FeeOnBothLegs ==
    \A f \in FeeRates :
        (pc = "done" /\ Len(trades) = 1
            /\ trades[1].compra_preco = trades[1].venda_preco)
        => capital_atual = Rat(capital_inicial * (100 - f) * (100 - f), 10000)

\* The lists the returned dictionary holds.
OutputLists ==
    IF "trades_detalhados" \in stats.keys \cap ListKeys
    THEN {stats.trades_detalhados} ELSE {}

\* C11 (as stated): for every non-empty input the returned dictionary holds an
\* equity curve, a list with exactly one entry per input day (the entry of a day
\* being cash plus held quantity at that day's Close), whether or not a trade
\* occurred.  Stated here by what it needs first: some list of the output has
\* as many entries as the input has days.
C11_EquityPerDay ==
    Returned => \E c \in OutputLists : Len(c) = Len(df)

\* capital_inicial multiplied by venda_preco / compra_preco of every trade.
RECURSIVE Compounded(_)
Compounded(tr) ==
    IF tr = <<>> THEN <<capital_inicial, 1>>
    ELSE RatMul(Compounded(SubSeq(tr, 1, Len(tr) - 1)),
                Rat(tr[Len(tr)].venda_preco, tr[Len(tr)].compra_preco))

\* C12: on the five-day table with thresholds 30 and 70 the run records exactly
\* one trade, bought on day 2 at 90 and sold on day 5 at 110 by signal; and in
\* every run the final capital is capital_inicial multiplied by the product of
\* exit price over entry price of the recorded trades (the dictionary reports
\* it rounded to two decimals).
C12_OneTradeAndCompounding ==
    Returned =>
        /\ capital_atual = Compounded(trades)
        /\ trades # <<>> =>
              stats.capital_final_estrategia = Round2(Compounded(trades))
        /\ (input = Scenario /\ buy_threshold = 30 /\ sell_threshold = 70) =>
              /\ Len(trades) = 1
              /\ trades[1].compra_data = 2
              /\ trades[1].compra_preco = 90
              /\ trades[1].venda_data = 5
              /\ trades[1].venda_preco = 110
              /\ ~trades[1].posicao_aberta
              /\ position = "None"

\* The run on the five-day table with thresholds 30 and 70 returned, with
\* 10000 x 110 / 90 as final capital, reported as 12222.22.
C12_Witness ==
    /\ Returned
    /\ input = Scenario
    /\ buy_threshold = 30
    /\ sell_threshold = 70
    /\ capital_atual = <<110000, 9>>
    /\ stats.capital_final_estrategia = <<611111, 50>>

\* C13: no step of a call changes the caller's table or the thresholds; every
\* call enters its loop Flat, with the full capital_inicial and an empty
\* ledger; and a call that returns on the arguments of an earlier call,
\* whatever was called in between, returns what that call returned.
C13_SameArgsSameResult ==
    [][/\ pc # "done" => Args' = Args
       /\ (pc = "call" /\ pc' = "loop") =>
             /\ position' = "None"
             /\ capital_atual' = <<capital_inicial, 1>>
             /\ trades' = <<>>
       /\ (pc' = "done" /\ first'.made /\ first'.args = Args') =>
             stats' = first'.stats]_vars

\* A call on a table in descending date order returned a ledger, as an earlier
\* call on the same arguments did, and the table is still in descending order.
C13_Witness ==
    /\ pc = "done"
    /\ first.made
    /\ first.args = Args
    /\ stats.numero_trades >= 1
    /\ stats = first.stats
    /\ Len(input) = 2
    /\ input[1].date > input[2].date

\* Both conditions are true of the row.
BothSignals(row) ==
    BuySignal(row.FGI, buy_threshold) /\ SellSignal(row.FGI, sell_threshold)

\* C16: a day makes at most one transition, decided by the condition of the
\* state the day starts in: a Flat day may buy and never sells, a Long day may
\* sell and never buys, so no day both opens and closes a position, also
\* when buy_threshold >= sell_threshold makes both conditions true of the day.
C16_OneTransitionPerDay ==
    [][InDay =>
          /\ idx' = idx + 1
          /\ Len(buys') + Len(trades') <= Len(buys) + Len(trades) + 1
          /\ position = "None" =>
                /\ trades' = trades
                /\ capital_atual' = capital_atual
                /\ position' = "long" <=> Len(buys') = Len(buys) + 1
                /\ position' = "None" => buys' = buys
          /\ position = "long" =>
                /\ buys' = buys
                /\ position' = "None" <=> Len(trades') = Len(trades) + 1
                /\ position' = "long" =>
                      (trades' = trades /\ buy_price' = buy_price)]_vars

\* A run returned in which a day with both conditions true bought without
\* selling, and a later day with both conditions true sold without buying.
C16_Witness ==
    /\ pc = "done"
    /\ Len(trades) >= 2
    /\ buy_threshold >= sell_threshold
    /\ BothSignals(df[1])
    /\ BothSignals(df[2])
    /\ trades[1].compra_data = df[1].date
    /\ trades[1].venda_data = df[2].date
    /\ trades[2].compra_data > df[2].date

\* C21: a table that holds a zero or negative Close is rejected before the
\* loop begins: the run goes from the call straight to the return of an error
\* dictionary, no position is opened at a price that is not positive, and no
\* return is computed by dividing by such a price (neither a trade's return nor
\* the buy-and-hold return).
C21_NonPositiveCloseRejected ==
    HasNonPositiveClose(input) =>
        /\ pc \in {"call", "done"}
        /\ pc = "done" => stats.keys = EmptyKeys
        /\ \A i \in 1..Len(buys) : buys[i][2] > 0
        /\ \A i \in 1..Len(trades) : trades[i].compra_preco > 0
        /\ "retorno_total_buy_hold_pct" \in stats.keys => df[1].Close > 0

\* The dates of the rows are strictly increasing.
StrictlyIncreasing(rows) ==
    \A i \in 1..(Len(rows) - 1) : rows[i].date < rows[i + 1].date

\* C22 as stated: over a table with strictly increasing dates every trade is
\* sold strictly later than it was bought, the forced end-of-series trade
\* included, and bought strictly later than the previous trade was sold.
C22_SellStrictlyLater ==
    StrictlyIncreasing(input) =>
        \A i \in 1..Len(trades) :
            /\ trades[i].venda_data > trades[i].compra_data
            /\ i > 1 => trades[i].compra_data > trades[i - 1].venda_data

\* C22, amended: over a table with strictly increasing dates no trade is sold
\* before it was bought and every trade is bought strictly later than the
\* previous one was sold; a sale on a signal is strictly later than its buy,
\* and only the forced end-of-series trade can be bought and sold on the same
\* day, the last day of the table.
C22_Chronological ==
    StrictlyIncreasing(input) =>
        \A i \in 1..Len(trades) :
            /\ trades[i].venda_data >= trades[i].compra_data
            /\ trades[i].dias_trade = trades[i].venda_data - trades[i].compra_data
            /\ ~trades[i].posicao_aberta =>
                  trades[i].venda_data > trades[i].compra_data
            /\ trades[i].venda_data = trades[i].compra_data =>
                  /\ trades[i].posicao_aberta
                  /\ i = Len(trades)
                  /\ trades[i].compra_data = df[Len(df)].date
            /\ i > 1 => trades[i].compra_data > trades[i - 1].venda_data

\* A run over ascending dates returned a ledger whose first trade was sold on
\* a signal a day after its buy and whose last trade was bought on the last
\* day and closed there.
C22_Witness ==
    /\ pc = "done"
    /\ StrictlyIncreasing(input)
    /\ Len(input) > 1
    /\ Len(trades) >= 2
    /\ trades[1].venda_data > trades[1].compra_data
    /\ trades[Len(trades)].posicao_aberta
    /\ trades[Len(trades)].venda_data = trades[Len(trades)].compra_data
    /\ trades[Len(trades)].compra_data > trades[Len(trades) - 1].venda_data

\* ---------------------------------------------- properties of align_series
AlDone == al_pc = "done"

InWindow(d) == al_start <= d /\ d <= al_end

\* The output rows dated d.
OutAt(d) == {j \in 1..Len(al_df.rows) : al_df.rows[j].date = d}

\* C7 (as stated): every price date inside [start, end] that has a sentiment
\* value dated at or before it is in the output, with the most recent such
\* value, even when the sentiment series has no row for that date.
C7_ForwardFilled ==
    AlDone =>
        \A i \in 1..Len(al_px.rows) :
            LET d == al_px.rows[i].date
                m == LatestAtOrBefore(d, al_fgi.rows)
            IN  (InWindow(d) /\ m # <<>>)
                => \E j \in OutAt(d) : al_df.rows[j].FGI = m[1].FGI

\* C7 (amended): the output is the inner join on the date: a price date inside
\* [start, end] is in the output exactly when the sentiment series has a row
\* for that very date, and it then carries that row's value; a price date with
\* no sentiment row of its own is dropped, whatever earlier values exist.
C7_InnerJoin ==
    AlDone =>
        \A i \in 1..Len(al_px.rows) :
            LET d == al_px.rows[i].date
                own == {k \in 1..Len(al_fgi.rows) : al_fgi.rows[k].date = d}
            IN  InWindow(d) =>
                  /\ (own # {}) <=> (OutAt(d) # {})
                  /\ \A k \in own : \E j \in OutAt(d) :
                        /\ al_df.rows[j].FGI = al_fgi.rows[k].FGI
                        /\ al_df.rows[j].Close = al_px.rows[i].Close

\* A price date inside the window has an earlier sentiment value but no row of
\* its own, and the returned table, which is not empty, leaves it out.
C7_Witness ==
    /\ AlDone
    /\ al_df.rows # <<>>
    /\ \E i \in 1..Len(al_px.rows) :
          LET d == al_px.rows[i].date IN
          /\ InWindow(d)
          /\ LatestAtOrBefore(d, al_fgi.rows) # <<>>
          /\ d \notin Dates(al_fgi.rows)
          /\ OutAt(d) = {}

NoInput(t) == t.kind = "None" \/ IsEmpty(t)

SharedInWindow ==
    {d \in Dates(al_px.rows) \cap Dates(al_fgi.rows) : InWindow(d)}

\* C9: with an input that is None or empty, or with two inputs that share no
\* date inside [start, end], the call returns (does not raise) the empty table
\* with the columns Open, Close, FGI.
C9_EmptyShape ==
    (AlDone /\ (NoInput(al_fgi) \/ NoInput(al_px) \/ SharedInWindow = {}))
    => /\ al_df.kind = "table"
       /\ al_df.cols = <<"Open", "Close", "FGI">>
       /\ al_df.rows = <<>>

\* Two non-empty inputs that share a date, but none inside the window.
C9_Witness ==
    /\ AlDone
    /\ ~NoInput(al_fgi)
    /\ ~NoInput(al_px)
    /\ Dates(al_px.rows) \cap Dates(al_fgi.rows) # {}
    /\ SharedInWindow = {}

\* --------------------------------------- properties of the fetch functions
Outcomes(seen, name) == {seen[i][2] : i \in {k \in 1..Len(seen) : seen[k][1] = name}}

\* Priority of a backend within its chain.
Prio(name) ==
    CASE name \in {"local", "yahoo"} -> 1
      [] name \in {"mirror", "coingecko"} -> 2
      [] OTHER -> 3

\* A backend failed when none of its requests gave a non-empty, well-formed
\* table; Binance, whose table is made of all its pages, also when one of its
\* requests raised or was malformed.
Failed(seen, name) == "ok" \notin Outcomes(seen, name)

BinanceFailed ==
    \/ Failed(btc_seen, "binance")
    \/ Outcomes(btc_seen, "binance") \cap {"raise", "malformed"} # {}

FgAllFailed == \A n \in {"local", "mirror", "api"} : Failed(fg_seen, n)

BtcAllFailed ==
    /\ Failed(btc_seen, "yahoo")
    /\ Failed(btc_seen, "coingecko")
    /\ BinanceFailed

FetchOver == fg_pc \in {"idle", "done"} /\ btc_pc \in {"idle", "done"}

\* C5: neither fetch function hands an exception to its caller, whatever each
\* backend does: every call runs on to its return, returns a table with its
\* value columns, and returns the empty table with the canonical columns when
\* all its backends failed.
C5_NeverRaises ==
    /\ fg_result.kind # "raise"
    /\ btc_result.kind # "raise"
    /\ FetchOver \/ ENABLED NextFetch
    /\ fg_pc = "done" =>
          /\ fg_result.kind = "table"
          /\ HasCol(fg_result, "FGI")
          /\ FgAllFailed => fg_result = EmptyFgi
    /\ btc_pc = "done" =>
          /\ btc_result.kind = "table"
          /\ btc_result.cols = <<"Open", "Close">>
          /\ BtcAllFailed => btc_result = EmptyPx

\* get_fgi_history returned after an empty local file, a mirror that raised
\* and an API response without a usable record.
C5_Witness ==
    /\ fg_pc = "done"
    /\ fg_seen = << <<"local", "empty">>, <<"mirror", "raise">>, <<"api", "malformed">> >>

\* The call c returned the table it read from the mirror.
FromMirror(c) ==
    c.made /\ c.seen # <<>> /\ c.seen[Len(c.seen)][1] = "mirror"

\* C14 (as stated): a call that returns the mirror's table has tried to write
\* it to csv_path before returning, and returns it whether or not the write
\* succeeded; when the write succeeded the file holds that table, and the
\* following call with the same csv_path returns it from the local file
\* without a request to the mirror or to the API.
C14_ServedFromCache ==
    fg_pc = "done" =>
        /\ FromMirror(FgCall(fg_seen, fg_result, fg_wrote)) =>
              /\ fg_result.kind = "table"
              /\ fg_wrote \in {"ok", "failed"}
              /\ fg_wrote = "ok" => cache = File(fg_result)
        /\ (FromMirror(fg_prev) /\ fg_prev.wrote = "ok") =>
              /\ fg_seen = << <<"local", "ok">> >>
              /\ fg_result = fg_prev.result

\* C15: a call of get_btc_history with start > end returns at once the empty
\* table with the columns Open and Close: it does not raise, sends no request
\* to Yahoo, CoinGecko or Binance, and does not sleep.
C15_InvertedWindow ==
    [][(btc_pc = "call" /\ btc_start > btc_end) =>
          /\ btc_pc' = "done"
          /\ btc_result'.kind = "table"
          /\ btc_result'.cols = <<"Open", "Close">>
          /\ btc_result'.rows = <<>>
          /\ btc_seen' = <<>>
          /\ btc_sleeps' = <<>>]_vars

\* A call with start > end, both in the past, returned without a request.
C15_Witness ==
    /\ btc_pc = "done"
    /\ btc_start > btc_end
    /\ btc_start <= today
    /\ max_retries >= 1
    /\ btc_seen = <<>>
    /\ btc_result = EmptyPx

YahooRequests == Len(SelectSeq(btc_seen, LAMBDA e : e[1] = "yahoo"))

\* C17 (as stated): the delays slept between the Yahoo attempts are 2 s, 4 s,
\* 8 s, ..., each the double of the one before, for every max_retries >= 2;
\* there are at most max_retries attempts; and nothing is slept after the final
\* failed attempt.
C17_DelayDoubles ==
    /\ \A i \in 1..Len(btc_sleeps) :
          btc_sleeps[i] = IF i = 1 THEN 2 ELSE 2 * btc_sleeps[i - 1]
    /\ YahooRequests <= max_retries
    /\ Len(btc_sleeps) <= YahooRequests
    /\ max_retries >= 1 => Len(btc_sleeps) <= max_retries - 1

Entries(seen) == {seen[i] : i \in 1..Len(seen)}

\* C18 (as stated): a Yahoo attempt that fails for a reason that is not
\* transient (a response without the Open or Close column) ends the retries:
\* nothing is slept after it and no further request goes to Yahoo.
C18_NonTransientEndsRetries ==
    [][Len(btc_seen') = Len(btc_seen) + 1 =>
          LET e == btc_seen'[Len(btc_seen')]
          IN  /\ e = <<"yahoo", "malformed">> => btc_sleeps' = btc_sleeps
              /\ e[1] = "yahoo" => <<"yahoo", "malformed">> \notin Entries(btc_seen)]_vars

\* The rows of the well-formed records of a response: the API records that are
\* dicts with a parsable timestamp and value, the ticks with parsable prices.
GoodApiRows(data) ==
    ParseRecords(SelectSeq(data, LAMBDA d :
        d.shape = "dict" /\ d.tsKind \in {"unix", "mdy"} /\ d.valKind = "num"))

GoodTickRows(data) == TickRows(SelectSeq(data, LAMBDA t : t.ok))

AllDicts(data) == \A i \in 1..Len(data) : data[i].shape = "dict"

DatesReturned(t) == IF t.kind = "table" THEN Dates(t.rows) ELSE {}

\* C19 (as stated): in each parser a record with a missing or unparsable
\* timestamp or value is skipped, and the dates of all well-formed records of
\* the same response are in the table the backend gives: whatever list of
\* records alternative.me or CoinGecko answers with, and whatever candles
\* Binance has served when the call returns.
C19_MalformedRecordSkipped ==
    /\ fg_pc = "api" =>
          \A resp \in ApiResponses :
              (resp.kind = "json" /\ AllDicts(resp.data)) =>
                  Dates(GoodApiRows(resp.data))
                      \subseteq DatesReturned(FetchFgiFromApi(resp))
    /\ btc_pc = "coingecko" =>
          \A resp \in GeckoResponses :
              resp.kind = "json" =>
                  Dates(GoodTickRows(resp.data))
                      \subseteq DatesReturned(TicksResult(resp))
    /\ (/\ btc_pc = "done"
        /\ btc_seen # <<>>
        /\ btc_seen[Len(btc_seen)][1] = "binance"
        /\ btc_seen[Len(btc_seen)][2] # "raise") =>
          Dates(GoodTickRows(all_data)) \subseteq DatesReturned(btc_result)

\* C20 (as stated): whatever backend served it, a table returned by
\* get_fgi_history or by get_btc_history has strictly increasing dates: it is
\* sorted by date and no date is on two rows.
C20_DatesIncreasing ==
    /\ fg_pc = "done" => StrictlyIncreasing(fg_result.rows)
    /\ btc_pc = "done" => StrictlyIncreasing(btc_result.rows)

\* The timestamps of the collected candles are strictly increasing.
TsIncreasing(data) == \A i \in 1..(Len(data) - 1) : data[i].ts < data[i + 1].ts

\* While the Binance loop runs, no candle is in all_data twice and every
\* collected candle is older than the start of the next window.
NoCandleTwice ==
    btc_pc \in {"page", "parse"} =>
        /\ TsIncreasing(all_data)
        /\ \A i \in 1..Len(all_data) :
              /\ btc_start * DayMs <= all_data[i].ts
              /\ all_data[i].ts < current_start
              /\ all_data[i].ts <= end_ts

\* One step of the Binance loop: a page that is not empty moves the window
\* start to its last candle plus one day, which is later than the old start;
\* the loop goes on only after a full page, and it is left for the parsing
\* only when the window start has reached the end or the page was empty or
\* shorter than the limit.
WindowAdvances ==
    btc_pc = "page" =>
        LET got == Len(all_data') - Len(all_data) IN
        /\ got \in 0..PageLimit
        /\ got > 0 =>
              /\ current_start' = all_data'[Len(all_data')].ts + DayMs
              /\ current_start' > current_start
        /\ got = 0 => current_start' = current_start
        /\ btc_pc' = "page" => (got = PageLimit /\ current_start < end_ts)
        /\ btc_pc' = "parse" =>
              (current_start >= end_ts \/ got < PageLimit)
        /\ (current_start >= end_ts \/ got < PageLimit) => btc_pc' # "page"

\* C23: for every start <= end, with pages that hold ascending candles inside
\* [startTime, endTime], the Binance loop of get_btc_history terminates: each
\* page that is not empty moves the window start to its last candle plus one
\* day, strictly later than before, the loop stops when the window start
\* reaches the end or a page is empty or shorter than the limit, and no
\* candle is collected twice.
C23_PaginationTerminates ==
    /\ []NoCandleTwice
    /\ [][WindowAdvances]_vars
    /\ (btc_pc = "page") ~> (btc_pc \in {"parse", "done"})

\* The loop was left by the window start passing the end after two full
\* pages.
C23_Witness ==
    /\ btc_pc = "parse"
    /\ Len(all_data) = 2 * PageLimit
    /\ current_start > end_ts
    /\ TsIncreasing(all_data)

\* --------------------------- properties of analyze_threshold_sensitivity
\* The 25 pairs of the claim.
Grid == {20, 25, 30, 35, 40} \X {60, 65, 70, 75, 80}

\* The pairs on which the table trades: a position is opened as soon as a
\* day's FGI is at or below the buy level, and an open position always ends
\* in a ledger entry.
TradingPairs ==
    {pr \in Grid : \E i \in 1..Len(sens_df) : sens_df[i].FGI <= pr[1]}

PairsOf(rows) ==
    {<<rows[i].buy_threshold, rows[i].sell_threshold>> : i \in 1..Len(rows)}

NonIncreasing(rows) ==
    \A i \in 1..(Len(rows) - 1) :
        ~RatLess(rows[i].retorno_pct, rows[i + 1].retorno_pct)

\* The calls made are those of the 25 pairs, each once and with sell above
\* buy, and a returned table holds one row for each pair that traded, in
\* order of non-increasing return.
GridAndOrder ==
    /\ sens_pc = "wait" =>
          /\ <<buy_threshold, sell_threshold>> \in Grid
          /\ sell_threshold > buy_threshold
          /\ \A j \in 1..sens_k :
                SensPairs[j] # <<buy_threshold, sell_threshold>>
    /\ sens_pc = "done" =>
          /\ sens_k = Cardinality(Grid)
          /\ {SensPairs[j] : j \in 1..sens_k} = Grid
          /\ PairsOf(results) = TradingPairs
          /\ Len(results) = Cardinality(TradingPairs)
    /\ (sens_pc = "done" /\ sens_out.kind = "table") =>
          /\ PairsOf(sens_out.rows) = TradingPairs
          /\ Len(sens_out.rows) = Cardinality(TradingPairs)
          /\ NonIncreasing(sens_out.rows)

\* C24: analyze_threshold_sensitivity evaluates exactly the 25 pairs, and for
\* every table, an empty one and one on which no pair trades included, it
\* returns without raising a table that holds exactly the pairs that traded,
\* in order of non-increasing return.
C24_ReturnsSortedTable ==
    /\ GridAndOrder
    /\ sens_pc = "done" => sens_out.kind = "table"

\* The requests follow the priority order.
Ordered(seen) ==
    \A i \in 1..Len(seen) : \A j \in i..Len(seen) : Prio(seen[i][1]) <= Prio(seen[j][1])

\* No backend is queried after a higher-priority one gave a non-empty table.
StopsAtSuccess(seen) ==
    \A i \in 1..Len(seen) : \A j \in i..Len(seen) :
        seen[i][2] = "ok" => Prio(seen[j][1]) = Prio(seen[i][1])

\* A call does not return on an empty answer of a backend that is not the last
\* of its chain.
NoEarlyEmpty(seen) ==
    (seen # <<>> /\ seen[Len(seen)][2] = "empty") => Prio(seen[Len(seen)][1]) = 3

\* C6 (as stated): the backends are tried in their fixed order, nothing is
\* queried after the first non-empty, well-formed table, which is what is
\* returned, and a backend's empty table is never returned while a backend of
\* lower priority is untried.
C6_FirstUsableBackend ==
    /\ Ordered(fg_seen) /\ Ordered(btc_seen)
    /\ StopsAtSuccess(fg_seen) /\ StopsAtSuccess(btc_seen)
    /\ fg_pc = "done" =>
          /\ NoEarlyEmpty(fg_seen)
          /\ ~FgAllFailed => ~IsEmpty(fg_result)
    /\ btc_pc = "done" =>
          /\ NoEarlyEmpty(btc_seen)
          /\ ~BtcAllFailed => ~IsEmpty(btc_result)

====
